---- MODULE Spec2Model ----
(***************************************************************************)
(* Model of db/db.go: the SQLite store of processes, vote packages and the *)
(* synchronisation checkpoint.                                             *)
(*                                                                         *)
(* The store is a *sql.DB, a pool of up to NumConns connections to one     *)
(* SQLite file; every method runs one SQL statement on a connection the    *)
(* pool hands out.  A statement is atomic, so a method is one action;      *)
(* concurrent callers are the interleavings of the actions, each served by *)
(* any connection of the pool.                                             *)
(*                                                                         *)
(* Tables are kept in rowid order, as SQLite stores them: processes.id and *)
(* votepackages.indx are INTEGER PRIMARY KEY (the rowid itself), meta.id   *)
(* is AUTOINCREMENT.  Uniqueness is checked by the INSERT, it is not built *)
(* into the representation.                                                *)
(*                                                                         *)
(* Integers: Go's uint64 and int (64 bit builds) are modelled IntBits wide *)
(* instead of 64 wide; int(x) and uint64(x) wrap as the Go conversions do. *)
(* Arguments that reach the driver as uint64 are drawn from 0..MaxInt, the *)
(* values an SQLite INTEGER holds.  Byte strings are drawn non-nil.        *)
(* insertedDatetime / lastUpdate (wall-clock bookkeeping) are not stored   *)
(* in the model; a query ordered by them returns its rows in any order.    *)
(***************************************************************************)
EXTENDS Integers, Sequences, FiniteSets, TLC

(* ----------------------------- bounds ---------------------------------- *)
\* width of uint64 / int in the model
IntBits == 3
\* process ids are 1..MaxProcID
MaxProcID == 2
\* connections the pool may hold open
NumConns == 2
\* rows InitMeta may add to meta
MaxMetaRows == 2

RECURSIVE Pow2(_)
Pow2(n) == IF n = 0 THEN 1 ELSE 2 * Pow2(n - 1)

\* largest int (2^63-1 in the program) and largest uint64 (2^64-1)
MaxInt == Pow2(IntBits - 1) - 1
MaxUint == Pow2(IntBits) - 1

\* Go's int(x) for x of type uint64: two's complement reinterpretation
ToInt(u) == IF u > MaxInt THEN u - Pow2(IntBits) ELSE u
\* Go's uint64(x) for x of type int
ToUint64(i) == IF i < 0 THEN i + Pow2(IntBits) ELSE i

(* --------------------------- input domains ----------------------------- *)
ProcIDs == 1..MaxProcID
\* CensusProof.Index values; two public keys allow two stored packages
Indexes == {1, 2}
CensusRoots == {"censusRoot"}
CensusSizes == {100}
EthBlockNums == {10}
ResPubStartBlocks == {1, MaxInt}
ResPubWindows == {20}
MinParticipations == {20}
MinPositiveVotesSet == {60}
Types == {1}
\* block heights handed to FrozeProcessesByCurrentBlockNum and
\* UpdateLastSyncBlockNum: both sides of the sign bit
BlockNums == {0, 1, MaxInt, MaxInt + 1, MaxUint}
PublicKeys == {"pkA", "pkB"}
MerkleProofs == {"proofA", "proofB"}
Signatures == {"sig"}
Votes == {"vote"}
ChainIDs == {42}

(* types.ProcessStatus *)
ProcessStatusOn == 0
ProcessStatusFrozen == 1
ProcessStatusProofGenerating == 2
ProcessStatusProofGenerated == 3
Statuses == {ProcessStatusOn, ProcessStatusFrozen,
             ProcessStatusProofGenerating, ProcessStatusProofGenerated}

(* ------------------------------ errors --------------------------------- *)
\* an error is its message and the id formatted into it (0: none)
Err(msg, id) == [msg |-> msg, id |-> id]
NoErr == Err("nil", 0)
ErrNoSuchTable == Err("no such table", 0)
DuplicateID == Err("UNIQUE constraint failed: processes.id", 0)
DuplicateIndex == Err("UNIQUE constraint failed: votepackages.indx", 0)
DuplicatePublicKey == Err("UNIQUE constraint failed: votepackages.publicKey", 0)
DuplicateProof == Err("UNIQUE constraint failed: votepackages.merkleproof", 0)
ForeignKeyFailed == Err("FOREIGN KEY constraint failed", 0)
ErrVoteProcessNotFound(id) ==
    Err("Can not store VotePackage, ProcessID=%d does not exist", id)
ErrProcessNotFound(id) == Err("Process ID:%d, does not exist in the db", id)
ErrMetaNotInDB == Err("Meta does not exist in the db", 0)

(* ------------------------------ state ---------------------------------- *)
VARIABLES
    migrated,      \* the three tables exist
    foreignKeys,   \* how many of the pool's connections have foreign_keys ON
    processes,     \* rows of table processes, in rowid (id) order
    votepackages,  \* rows of table votepackages, in rowid (indx) order
    meta,          \* rows of table meta, in rowid (id) order
    lastOp,        \* the last call: its method, arguments and what it returned
    history,       \* what the callers were told so far (not program state)
    calls          \* the calls of concurrent callers that are under way

vars == <<migrated, foreignKeys, processes, votepackages, meta, lastOp,
          history, calls>>

Range(s) == {s[i] : i \in DOMAIN s}

ZeroProcess ==
    [id |-> 0, status |-> 0, censusRoot |-> "", censusSize |-> 0,
     ethBlockNum |-> 0, resPubStartBlock |-> 0, resPubWindow |-> 0,
     minParticipation |-> 0, minPositiveVotes |-> 0, typ |-> 0]

\* a *big.Int: nil, or a value
NilWeight == [isNil |-> TRUE, v |-> 0]
BigInt(n) == [isNil |-> FALSE, v |-> n]

ZeroVote ==
    [index |-> 0, publicKey |-> "", weight |-> NilWeight, merkleProof |-> "",
     signature |-> "", vote |-> ""]

\* the record of a call; fields a method does not use keep these values
NoCall ==
    [op |-> "NewSQLite", id |-> 0, status |-> 0, block |-> 0,
     proc |-> ZeroProcess, vote |-> ZeroVote, err |-> NoErr,
     retStatus |-> 0, retProc |-> ZeroProcess, retProcs |-> <<>>,
     retVotes |-> <<>>, retBlock |-> 0]

\* history.created: the arguments of the StoreProcess calls that returned nil
\* history.appended: processID and package of the StoreVotePackage calls that
\*                   returned nil
\* history.metaInit: an InitMeta call has returned nil
\* history.updated: an UpdateLastSyncBlockNum call has returned nil
\* history.checkpoint: the block number of the first successful InitMeta or,
\*                     after it, of the latest successful
\*                     UpdateLastSyncBlockNum
NoHistory ==
    [created |-> {}, appended |-> {}, metaInit |-> FALSE, updated |-> FALSE,
     checkpoint |-> 0]

\* two goroutines that call the store at the same time
Callers == {"first", "second"}

\* a call is "idle" (not made), "prepared" (r.db.Prepare has returned and
\* stmt.Exec has not run) or "returned"
IdleCall ==
    [pc |-> "idle", op |-> "", proc |-> ZeroProcess, id |-> 0,
     vote |-> ZeroVote, err |-> NoErr]

Init ==
    /\ migrated = FALSE
    /\ foreignKeys = 0
    /\ processes = <<>>
    /\ votepackages = <<>>
    /\ meta = <<>>
    /\ lastOp = NoCall
    /\ history = NoHistory
    /\ calls = [c \in Callers |-> IdleCall]

(* ------------------------------ Migrate -------------------------------- *)
\* The connections of the pool differ only in their foreign_keys pragma,
\* which is OFF when a connection is opened: the pragma settings of the
\* connections that may serve a call.
ServingPragmas ==
    {on \in BOOLEAN : IF on THEN foreignKeys > 0 ELSE foreignKeys < NumConns}

\* PRAGMA foreign_keys = ON acts on the one connection that runs it (one
\* whose pragma was already ON, or not); the CREATE TABLE IF NOT EXISTS
\* statements act on the shared database file.
Migrate(pragmaWasOn) ==
    /\ foreignKeys' = IF pragmaWasOn THEN foreignKeys ELSE foreignKeys + 1
    /\ migrated' = TRUE
    /\ lastOp' = [NoCall EXCEPT !.op = "Migrate"]
    /\ UNCHANGED <<processes, votepackages, meta, history, calls>>

(* ---------------------------- StoreProcess ----------------------------- *)
\* a variant that binds the wrong status constant
NewProcessRowFrozen(args) == [args EXCEPT !.status = ProcessStatusFrozen]

\* the row StoreProcess binds: its arguments, and types.ProcessStatusOn
NewProcessRow(args) == [args EXCEPT !.status = ProcessStatusOn]

\* processes.id is PRIMARY KEY UNIQUE
ProcessIDTaken(procs, id) == \E i \in DOMAIN procs : procs[i].id = id

InsertByID(procs, row) ==
    SelectSeq(procs, LAMBDA r : r.id <= row.id) \o <<row>>
        \o SelectSeq(procs, LAMBDA r : r.id > row.id)

\* a variant with INSERT OR REPLACE semantics
InsertOrReplaceProcess(procs, row) ==
    [err |-> NoErr,
     rows |-> InsertByID(SelectSeq(procs, LAMBDA r : r.id # row.id), row)]

\* a variant written as INSERT OR IGNORE: a taken id is no error
InsertOrIgnoreProcess(procs, row) ==
    IF ProcessIDTaken(procs, row.id)
    THEN [err |-> NoErr, rows |-> procs]
    ELSE [err |-> NoErr, rows |-> InsertByID(procs, row)]

\* INSERT INTO processes(...): the error and the table afterwards
InsertProcess(procs, row) ==
    IF ProcessIDTaken(procs, row.id)
    THEN [err |-> DuplicateID, rows |-> procs]
    ELSE [err |-> NoErr, rows |-> InsertByID(procs, row)]

ProcessArgs ==
    [id : ProcIDs, status : {0}, censusRoot : CensusRoots,
     censusSize : CensusSizes, ethBlockNum : EthBlockNums,
     resPubStartBlock : ResPubStartBlocks, resPubWindow : ResPubWindows,
     minParticipation : MinParticipations,
     minPositiveVotes : MinPositiveVotesSet, typ : Types]

StoreProcessCall(args) ==
    LET call == [NoCall EXCEPT !.op = "StoreProcess", !.id = args.id,
                               !.proc = args]
    IN  IF ~migrated
        THEN /\ lastOp' = [call EXCEPT !.err = ErrNoSuchTable]
             /\ UNCHANGED <<migrated, foreignKeys, processes, votepackages, meta, history, calls>>
        ELSE LET res == InsertProcess(processes, NewProcessRow(args))
             IN  /\ processes' = res.rows
                 /\ lastOp' = [call EXCEPT !.err = res.err]
                 /\ history' = IF res.err = NoErr
                               THEN [history EXCEPT !.created = @ \cup {args}]
                               ELSE history
                 /\ UNCHANGED <<migrated, foreignKeys, votepackages, meta, calls>>

StoreProcess == \E args \in ProcessArgs : StoreProcessCall(args)

(* ------------------------- UpdateProcessStatus ------------------------- *)
\* a variant that only moves a status forward
UpdateStatusRowsForward(procs, id, status) ==
    [i \in DOMAIN procs |->
        IF procs[i].id = id /\ procs[i].status < status
        THEN [procs[i] EXCEPT !.status = status]
        ELSE procs[i]]

\* a variant that creates the row when the id is absent
UpsertStatusRows(procs, id, status) ==
    IF \E i \in DOMAIN procs : procs[i].id = id
    THEN [i \in DOMAIN procs |->
            IF procs[i].id = id THEN [procs[i] EXCEPT !.status = status]
                                ELSE procs[i]]
    ELSE Append(procs, [ZeroProcess EXCEPT !.id = id, !.status = status])

\* UPDATE processes SET status=? WHERE id=?
UpdateStatusRows(procs, id, status) ==
    [i \in DOMAIN procs |->
        IF procs[i].id = id THEN [procs[i] EXCEPT !.status = status]
                            ELSE procs[i]]

UpdateProcessStatusCall(id, status) ==
    LET call == [NoCall EXCEPT !.op = "UpdateProcessStatus", !.id = id,
                               !.status = status]
    IN  IF ~migrated
        THEN /\ lastOp' = [call EXCEPT !.err = ErrNoSuchTable]
             /\ UNCHANGED <<migrated, foreignKeys, processes, votepackages, meta, history, calls>>
        ELSE /\ processes' = UpdateStatusRows(processes, id, status)
             /\ lastOp' = call
             /\ UNCHANGED <<migrated, foreignKeys, votepackages, meta, history, calls>>

UpdateProcessStatus ==
    \E id \in ProcIDs, status \in Statuses : UpdateProcessStatusCall(id, status)

(* ------------------- GetProcessStatus, ReadProcessByID ----------------- *)
\* SELECT ... FROM processes WHERE id = ?
SelectByID(procs, id) == SelectSeq(procs, LAMBDA r : r.id = id)

\* a variant that drops the sql.ErrNoRows case
QueryProcessRowNoCheck(procs, id) ==
    LET rows == SelectSeq(procs, LAMBDA r : r.id = id)
    IN  [err |-> NoErr,
         row |-> IF rows = <<>> THEN ZeroProcess ELSE rows[1]]

\* QueryRow + Scan: the first row, or sql.ErrNoRows turned into the
\* "does not exist" error
QueryProcessRow(procs, id) ==
    LET rows == SelectByID(procs, id)
    IN  IF rows = <<>>
        THEN [err |-> ErrProcessNotFound(id), row |-> ZeroProcess]
        ELSE [err |-> NoErr, row |-> rows[1]]

GetProcessStatusCall(id) ==
    LET call == [NoCall EXCEPT !.op = "GetProcessStatus", !.id = id]
        res == QueryProcessRow(processes, id)
    IN  /\ lastOp' = IF ~migrated
                     THEN [call EXCEPT !.err = ErrNoSuchTable]
                     ELSE [call EXCEPT !.err = res.err,
                                       !.retStatus = res.row.status]
        /\ UNCHANGED <<migrated, foreignKeys, processes, votepackages, meta, history, calls>>

GetProcessStatus == \E id \in ProcIDs : GetProcessStatusCall(id)

ReadProcessByIDCall(id) ==
    LET call == [NoCall EXCEPT !.op = "ReadProcessByID", !.id = id]
        res == QueryProcessRow(processes, id)
    IN  /\ lastOp' = IF ~migrated
                     THEN [call EXCEPT !.err = ErrNoSuchTable]
                     ELSE [call EXCEPT !.err = res.err, !.retProc = res.row]
        /\ UNCHANGED <<migrated, foreignKeys, processes, votepackages, meta, history, calls>>

ReadProcessByID == \E id \in ProcIDs : ReadProcessByIDCall(id)

(* ---------------------------- list queries ----------------------------- *)
\* a query that stops after its first row (LIMIT 1)
AnyOrderOfFirst(rows) == IF rows = <<>> THEN {<<>>} ELSE {<<rows[1]>>}

\* the orders in which a query sorted by a timestamp may return its rows
AnyOrder(rows) ==
    {[i \in 1..Len(rows) |-> rows[p[i]]] : p \in Permutations(1..Len(rows))}

\* a list query: the rows, in one of the possible orders
ListCall(call, rows) ==
    /\ IF ~migrated
       THEN lastOp' = [call EXCEPT !.err = ErrNoSuchTable]
       ELSE \E res \in AnyOrder(rows) : lastOp' = [call EXCEPT !.retProcs = res]
    /\ UNCHANGED <<migrated, foreignKeys, processes, votepackages, meta, history, calls>>

\* SELECT * FROM processes ORDER BY datetime(insertedDatetime) DESC
ReadProcesses ==
    ListCall([NoCall EXCEPT !.op = "ReadProcesses"], processes)

\* a variant that also selects the processes that started earlier
SelectUpToResPubStartBlock(procs, block) ==
    SelectSeq(procs, LAMBDA r : r.resPubStartBlock <= block)

\* SELECT * FROM processes WHERE resPubStartBlock = ?
SelectByResPubStartBlock(procs, block) ==
    SelectSeq(procs, LAMBDA r : r.resPubStartBlock = block)

ReadProcessesByResPubStartBlock ==
    \E block \in ResPubStartBlocks :
        ListCall([NoCall EXCEPT !.op = "ReadProcessesByResPubStartBlock",
                                !.block = block],
                 SelectByResPubStartBlock(processes, block))

\* a variant that also selects the processes in an earlier status
SelectUpToStatus(procs, status) == SelectSeq(procs, LAMBDA r : r.status <= status)

\* SELECT * FROM processes WHERE status = ?
SelectByStatus(procs, status) == SelectSeq(procs, LAMBDA r : r.status = status)

ReadProcessesByStatus ==
    \E status \in Statuses :
        ListCall([NoCall EXCEPT !.op = "ReadProcessesByStatus",
                                !.status = status],
                 SelectByStatus(processes, status))

(* ------------------- FrozeProcessesByCurrentBlockNum ------------------- *)
\* a variant that forgets the status = ? condition
FrozeWhereAnyStatus(row, currBlockNum) ==
    row.resPubStartBlock <= ToInt(currBlockNum)

\* WHERE (resPubStartBlock <= ? AND status = ?), bound to int(currBlockNum)
\* and types.ProcessStatusOn
FrozeWhere(row, currBlockNum) ==
    /\ row.resPubStartBlock <= ToInt(currBlockNum)
    /\ row.status = ProcessStatusOn

\* UPDATE processes SET status = ? WHERE ..., bound to ProcessStatusFrozen
FrozeRows(procs, currBlockNum) ==
    [i \in DOMAIN procs |->
        IF FrozeWhere(procs[i], currBlockNum)
        THEN [procs[i] EXCEPT !.status = ProcessStatusFrozen]
        ELSE procs[i]]

FrozeCall(currBlockNum) ==
    LET call == [NoCall EXCEPT !.op = "FrozeProcessesByCurrentBlockNum",
                               !.block = currBlockNum]
    IN  IF ~migrated
        THEN /\ lastOp' = [call EXCEPT !.err = ErrNoSuchTable]
             /\ UNCHANGED <<migrated, foreignKeys, processes, votepackages, meta, history, calls>>
        ELSE /\ processes' = FrozeRows(processes, currBlockNum)
             /\ lastOp' = call
             /\ UNCHANGED <<migrated, foreignKeys, votepackages, meta, history, calls>>

FrozeProcessesByCurrentBlockNum ==
    \E currBlockNum \in BlockNums : FrozeCall(currBlockNum)

(* --------------------------- StoreVotePackage -------------------------- *)
\* big.Int.Bytes(): the big-endian bytes of the absolute value, none for 0
RECURSIVE NatBytes(_)
NatBytes(n) == IF n = 0 THEN <<>> ELSE Append(NatBytes(n \div 256), n % 256)

\* a variant that keeps the lowest byte of the weight only
BytesOfLowByte(w) == NatBytes((IF w.v < 0 THEN -w.v ELSE w.v) % 256)

Bytes(w) == NatBytes(IF w.v < 0 THEN -w.v ELSE w.v)

\* new(big.Int).SetBytes(b): the big-endian unsigned value of b
RECURSIVE SetBytes(_)
SetBytes(b) ==
    IF b = <<>> THEN 0
    ELSE 256 * SetBytes(SubSeq(b, 1, Len(b) - 1)) + b[Len(b)]

\* "no weight defined, use 0"
WeightOrZero(w) == IF w.isNil THEN BigInt(0) ELSE w

\* the row StoreVotePackage binds
NewVoteRow(processID, vote) ==
    [indx |-> vote.index, publicKey |-> vote.publicKey,
     weight |-> Bytes(WeightOrZero(vote.weight)),
     merkleproof |-> vote.merkleProof, signature |-> vote.signature,
     vote |-> vote.vote, processID |-> processID]

\* a variant whose constraints are unique per process only
UniqueViolationsPerProcess(rows, row) ==
    {e \in {DuplicateIndex, DuplicatePublicKey, DuplicateProof} :
        \E i \in DOMAIN rows :
            /\ rows[i].processID = row.processID
            /\ \/ e = DuplicateIndex /\ rows[i].indx = row.indx
               \/ e = DuplicatePublicKey /\ rows[i].publicKey = row.publicKey
               \/ e = DuplicateProof /\ rows[i].merkleproof = row.merkleproof}

\* the UNIQUE constraints of votepackages that inserting row would break
UniqueViolations(rows, row) ==
    {e \in {DuplicateIndex, DuplicatePublicKey, DuplicateProof} :
        \E i \in DOMAIN rows :
            \/ e = DuplicateIndex /\ rows[i].indx = row.indx
            \/ e = DuplicatePublicKey /\ rows[i].publicKey = row.publicKey
            \/ e = DuplicateProof /\ rows[i].merkleproof = row.merkleproof}

\* a variant that accepts packages for processes with status On only
ForeignKeyViolatedUnlessOn(fkOn, procs, row) ==
    fkOn /\ ~\E i \in DOMAIN procs : /\ procs[i].id = row.processID
                                     /\ procs[i].status = ProcessStatusOn

\* FOREIGN KEY(processID) REFERENCES processes(id), enforced only on a
\* connection whose foreign_keys pragma is ON
ForeignKeyViolated(fkOn, procs, row) ==
    fkOn /\ ~ProcessIDTaken(procs, row.processID)

InsertByIndx(rows, row) ==
    SelectSeq(rows, LAMBDA r : r.indx <= row.indx) \o <<row>>
        \o SelectSeq(rows, LAMBDA r : r.indx > row.indx)

\* the engine's error text turned into the error StoreVotePackage returns
TranslateVoteError(err, processID) ==
    IF err = ForeignKeyFailed THEN ErrVoteProcessNotFound(processID) ELSE err

\* a variant written as INSERT OR REPLACE: the rows that stand in the way of
\* the new one are deleted
InsertOrReplaceVote(fkOn, procs, rows, row) ==
    LET kept == SelectSeq(rows, LAMBDA r : /\ r.indx # row.indx
                                           /\ r.publicKey # row.publicKey
                                           /\ r.merkleproof # row.merkleproof)
    IN  IF ForeignKeyViolated(fkOn, procs, row)
        THEN {[err |-> ForeignKeyFailed, rows |-> rows]}
        ELSE {[err |-> NoErr, rows |-> InsertByIndx(kept, row)]}

\* INSERT INTO votepackages(...) on a connection: the possible outcomes.
\* A UNIQUE violation aborts the insert of the row; the foreign key is
\* checked when the statement ends.  Which of several broken UNIQUE
\* constraints the engine reports is left open.
InsertVote(fkOn, procs, rows, row) ==
    IF UniqueViolations(rows, row) # {}
    THEN {[err |-> e, rows |-> rows] : e \in UniqueViolations(rows, row)}
    ELSE IF ForeignKeyViolated(fkOn, procs, row)
    THEN {[err |-> ForeignKeyFailed, rows |-> rows]}
    ELSE {[err |-> NoErr, rows |-> InsertByIndx(rows, row)]}

\* the pool serves the call on any of its connections
StoreVotePackageCall(processID, vote) ==
    LET call == [NoCall EXCEPT !.op = "StoreVotePackage", !.id = processID,
                               !.vote = vote]
    IN  IF ~migrated
        THEN /\ lastOp' = [call EXCEPT !.err = ErrNoSuchTable]
             /\ UNCHANGED <<migrated, foreignKeys, processes, votepackages, meta, history, calls>>
        ELSE \E res \in UNION {InsertVote(fkOn, processes, votepackages,
                                          NewVoteRow(processID, vote)) :
                                   fkOn \in ServingPragmas} :
                /\ votepackages' = res.rows
                /\ lastOp' = [call EXCEPT
                                 !.err = TranslateVoteError(res.err, processID)]
                /\ history' =
                      IF res.err = NoErr
                      THEN [history EXCEPT !.appended =
                               @ \cup {[processID |-> processID, vote |-> vote]}]
                      ELSE history
                /\ UNCHANGED <<migrated, foreignKeys, processes, meta, calls>>

VoteArgs(weights) ==
    [index : Indexes, publicKey : PublicKeys, weight : weights,
     merkleProof : MerkleProofs, signature : Signatures, vote : Votes]

StoreVotePackage ==
    \E processID \in ProcIDs, vote \in VoteArgs({BigInt(1)}) :
        StoreVotePackageCall(processID, vote)

(* ---------------------- ReadVotePackagesByProcessID -------------------- *)
\* ORDER BY indx ASC
RECURSIVE SortByIndx(_)
SortByIndx(rows) ==
    IF rows = <<>> THEN <<>>
    ELSE LET least == CHOOSE i \in DOMAIN rows :
                          \A j \in DOMAIN rows :
                              \/ rows[i].indx < rows[j].indx
                              \/ rows[i].indx = rows[j].indx /\ i <= j
         IN  <<rows[least]>> \o
             SortByIndx(SubSeq(rows, 1, least - 1) \o
                        SubSeq(rows, least + 1, Len(rows)))

\* a variant that forgets the WHERE clause
SelectVotesOfAnyProcess(rows, processID) == SortByIndx(rows)

\* SELECT ... FROM votepackages WHERE processID = ? ORDER BY indx ASC
SelectVotesByProcessID(rows, processID) ==
    SortByIndx(SelectSeq(rows, LAMBDA r : r.processID = processID))

\* rows.Scan into a types.VotePackage
ScanVote(row) ==
    [index |-> row.indx, publicKey |-> row.publicKey,
     weight |-> BigInt(SetBytes(row.weight)),
     merkleProof |-> row.merkleproof, signature |-> row.signature,
     vote |-> row.vote]

ReadVotePackagesByProcessIDCall(processID) ==
    LET call == [NoCall EXCEPT !.op = "ReadVotePackagesByProcessID",
                               !.id = processID]
        rows == SelectVotesByProcessID(votepackages, processID)
    IN  /\ lastOp' = IF ~migrated
                     THEN [call EXCEPT !.err = ErrNoSuchTable]
                     ELSE [call EXCEPT
                              !.retVotes = [i \in DOMAIN rows |-> ScanVote(rows[i])]]
        /\ UNCHANGED <<migrated, foreignKeys, processes, votepackages, meta, history, calls>>

ReadVotePackagesByProcessID ==
    \E processID \in ProcIDs : ReadVotePackagesByProcessIDCall(processID)

(* ------------------------------- InitMeta ------------------------------ *)
\* block heights InitMeta is given
InitBlockNums == {0, 1, MaxInt}

\* INSERT INTO meta(chainID, lastSyncBlockNum, lastUpdate): id is
\* AUTOINCREMENT, one more than the largest id the table ever held
InsertMeta(rows, chainID, lastSyncBlockNum) ==
    Append(rows, [id |-> Len(rows) + 1, chainID |-> chainID,
                  lastSyncBlockNum |-> lastSyncBlockNum])

InitMetaCall(chainID, lastSyncBlockNum) ==
    LET call == [NoCall EXCEPT !.op = "InitMeta", !.id = chainID,
                               !.block = lastSyncBlockNum]
    IN  IF ~migrated
        THEN /\ lastOp' = [call EXCEPT !.err = ErrNoSuchTable]
             /\ UNCHANGED <<migrated, foreignKeys, processes, votepackages, meta, history, calls>>
        ELSE /\ meta' = InsertMeta(meta, chainID, lastSyncBlockNum)
             /\ lastOp' = call
             /\ history' = IF history.metaInit THEN history
                           ELSE [history EXCEPT !.metaInit = TRUE,
                                                !.checkpoint = lastSyncBlockNum]
             /\ UNCHANGED <<migrated, foreignKeys, processes, votepackages, calls>>

InitMeta ==
    /\ Len(meta) < MaxMetaRows
    /\ \E chainID \in ChainIDs, lastSyncBlockNum \in InitBlockNums :
          InitMetaCall(chainID, lastSyncBlockNum)

(* ------------------------ UpdateLastSyncBlockNum ----------------------- *)
\* a variant that creates the checkpoint when there is none
UpsertMetaRows(rows, lastSyncBlockNum) ==
    IF \E i \in DOMAIN rows : rows[i].id = 1
    THEN [i \in DOMAIN rows |->
             IF rows[i].id = 1
             THEN [rows[i] EXCEPT !.lastSyncBlockNum = ToInt(lastSyncBlockNum)]
             ELSE rows[i]]
    ELSE <<[id |-> 1, chainID |-> 0,
            lastSyncBlockNum |-> ToInt(lastSyncBlockNum)]>>

\* a variant that forgets the WHERE clause
UpdateAllMetaRows(rows, lastSyncBlockNum) ==
    [i \in DOMAIN rows |->
        [rows[i] EXCEPT !.lastSyncBlockNum = ToInt(lastSyncBlockNum)]]

\* UPDATE meta SET lastSyncBlockNum=? WHERE id=?, bound to
\* int(lastSyncBlockNum) and 1
UpdateMetaRows(rows, lastSyncBlockNum) ==
    [i \in DOMAIN rows |->
        IF rows[i].id = 1
        THEN [rows[i] EXCEPT !.lastSyncBlockNum = ToInt(lastSyncBlockNum)]
        ELSE rows[i]]

UpdateLastSyncBlockNumCall(lastSyncBlockNum) ==
    LET call == [NoCall EXCEPT !.op = "UpdateLastSyncBlockNum",
                               !.block = lastSyncBlockNum]
    IN  IF ~migrated
        THEN /\ lastOp' = [call EXCEPT !.err = ErrNoSuchTable]
             /\ UNCHANGED <<migrated, foreignKeys, processes, votepackages, meta, history, calls>>
        ELSE /\ meta' = UpdateMetaRows(meta, lastSyncBlockNum)
             /\ lastOp' = call
             /\ history' = [history EXCEPT
                               !.updated = TRUE,
                               !.checkpoint = IF history.metaInit
                                              THEN lastSyncBlockNum ELSE @]
             /\ UNCHANGED <<migrated, foreignKeys, processes, votepackages, calls>>

UpdateLastSyncBlockNum ==
    \E lastSyncBlockNum \in BlockNums :
        UpdateLastSyncBlockNumCall(lastSyncBlockNum)

(* -------------------------- GetLastSyncBlockNum ------------------------ *)
\* a variant that returns the stored signed value as it is
QueryLastSyncBlockNumSigned(rows) ==
    LET found == SelectSeq(rows, LAMBDA r : r.id = 1)
    IN  IF found = <<>>
        THEN [err |-> ErrMetaNotInDB, block |-> 0]
        ELSE [err |-> NoErr, block |-> found[1].lastSyncBlockNum]

\* SELECT lastSyncBlockNum FROM meta WHERE id = 1, scanned into an int and
\* returned as uint64
QueryLastSyncBlockNum(rows) ==
    LET found == SelectSeq(rows, LAMBDA r : r.id = 1)
    IN  IF found = <<>>
        THEN [err |-> ErrMetaNotInDB, block |-> 0]
        ELSE [err |-> NoErr, block |-> ToUint64(found[1].lastSyncBlockNum)]

GetLastSyncBlockNum ==
    LET call == [NoCall EXCEPT !.op = "GetLastSyncBlockNum"]
        res == QueryLastSyncBlockNum(meta)
    IN  /\ lastOp' = IF ~migrated
                     THEN [call EXCEPT !.err = ErrNoSuchTable]
                     ELSE [call EXCEPT !.err = res.err, !.retBlock = res.block]
        /\ UNCHANGED <<migrated, foreignKeys, processes, votepackages, meta, history, calls>>

(* --------------------------- specifications ---------------------------- *)
\* the process store
Next ==
    \/ \E pragmaWasOn \in ServingPragmas : Migrate(pragmaWasOn)
    \/ StoreProcess
    \/ UpdateProcessStatus
    \/ GetProcessStatus
    \/ ReadProcessByID
    \/ ReadProcesses
    \/ ReadProcessesByResPubStartBlock
    \/ ReadProcessesByStatus
    \/ FrozeProcessesByCurrentBlockNum

Spec == Init /\ [][Next]_vars

\* the vote package store, over processes created with one set of arguments
DefaultProcess(id) ==
    [id |-> id, status |-> 0, censusRoot |-> "censusRoot", censusSize |-> 100,
     ethBlockNum |-> 10, resPubStartBlock |-> 1, resPubWindow |-> 20,
     minParticipation |-> 20, minPositiveVotes |-> 60, typ |-> 1]

NextVotes ==
    \/ \E pragmaWasOn \in ServingPragmas : Migrate(pragmaWasOn)
    \/ \E id \in ProcIDs : StoreProcessCall(DefaultProcess(id))
    \/ StoreVotePackage
    \/ ReadVotePackagesByProcessID

SpecVotes == Init /\ [][NextVotes]_vars

\* the sync checkpoint store
NextMeta ==
    \/ \E pragmaWasOn \in ServingPragmas : Migrate(pragmaWasOn)
    \/ InitMeta
    \/ UpdateLastSyncBlockNum
    \/ GetLastSyncBlockNum

SpecMeta == Init /\ [][NextMeta]_vars



\* the vote package store over weights: two packages, each stored with no
\* weight, with a weight of no byte, of one byte, of two bytes, or with a
\* negative weight
Weights == {NilWeight, BigInt(0), BigInt(1), BigInt(258), BigInt(-1)}

WeightedVotes ==
    {v \in VoteArgs(Weights) :
        \/ v.index = 1 /\ v.publicKey = "pkA" /\ v.merkleProof = "proofA"
        \/ v.index = 2 /\ v.publicKey = "pkB" /\ v.merkleProof = "proofB"}

\* the weight does not depend on the process: all packages go to one
WeightedProcIDs == {1}

StoreWeightedVotePackage ==
    \E processID \in WeightedProcIDs, vote \in WeightedVotes :
        StoreVotePackageCall(processID, vote)

NextWeights ==
    \/ \E pragmaWasOn \in ServingPragmas : Migrate(pragmaWasOn)
    \/ \E id \in WeightedProcIDs : StoreProcessCall(DefaultProcess(id))
    \/ StoreWeightedVotePackage
    \/ ReadVotePackagesByProcessID

SpecWeights == Init /\ [][NextWeights]_vars

\* the process store and the vote package ledger together: every method
\* that writes to the two tables, over two packages
LedgerVotes ==
    {v \in VoteArgs({BigInt(1)}) :
        \/ v.index = 1 /\ v.publicKey = "pkA" /\ v.merkleProof = "proofA"
        \/ v.index = 2 /\ v.publicKey = "pkB" /\ v.merkleProof = "proofB"}

StoreLedgerVotePackage ==
    \E processID \in ProcIDs, vote \in LedgerVotes :
        StoreVotePackageCall(processID, vote)

\* one set of arguments per id, the first process due at block 1 and the
\* others at the last block a signed integer holds
LedgerProcess(id) ==
    [DefaultProcess(id) EXCEPT
        !.resPubStartBlock = IF id = 1 THEN 1 ELSE MaxInt]

StoreLedgerProcess == \E id \in ProcIDs : StoreProcessCall(LedgerProcess(id))

NextLedger ==
    \/ \E pragmaWasOn \in ServingPragmas : Migrate(pragmaWasOn)
    \/ StoreLedgerProcess
    \/ UpdateProcessStatus
    \/ FrozeProcessesByCurrentBlockNum
    \/ StoreLedgerVotePackage

SpecLedger == Init /\ [][NextLedger]_vars

\* two callers at the same time.  A method is two steps, r.db.Prepare and
\* stmt.Exec; the engine runs the INSERT of stmt.Exec as one step.
\* r.db.Prepare fails when the table is missing.
PrepareCall(c, call) ==
    /\ calls[c].pc = "idle"
    /\ calls' = [calls EXCEPT ![c] =
                    IF ~migrated
                    THEN [call EXCEPT !.pc = "returned", !.err = ErrNoSuchTable]
                    ELSE [call EXCEPT !.pc = "prepared"]]
    /\ UNCHANGED <<migrated, foreignKeys, processes, votepackages, meta,
                   lastOp, history>>

PrepareStoreProcess(c) ==
    \E id \in ProcIDs :
        PrepareCall(c, [IdleCall EXCEPT !.op = "StoreProcess", !.id = id,
                                        !.proc = DefaultProcess(id)])

ExecStoreProcess(c) ==
    /\ calls[c].pc = "prepared"
    /\ calls[c].op = "StoreProcess"
    /\ LET res == InsertProcess(processes, NewProcessRow(calls[c].proc))
       IN  /\ processes' = res.rows
           /\ calls' = [calls EXCEPT ![c].pc = "returned", ![c].err = res.err]
           /\ history' = IF res.err = NoErr
                         THEN [history EXCEPT !.created = @ \cup {calls[c].proc}]
                         ELSE history
    /\ UNCHANGED <<migrated, foreignKeys, votepackages, meta, lastOp>>

\* the packages of the two callers go to processes that are stored
PrepareStoreVotePackage(c) ==
    \E processID \in ProcIDs, vote \in VoteArgs({BigInt(1)}) :
        /\ ProcessIDTaken(processes, processID)
        /\ PrepareCall(c, [IdleCall EXCEPT !.op = "StoreVotePackage",
                                           !.id = processID, !.vote = vote])

ExecStoreVotePackage(c) ==
    /\ calls[c].pc = "prepared"
    /\ calls[c].op = "StoreVotePackage"
    /\ \E res \in UNION {InsertVote(fkOn, processes, votepackages,
                                    NewVoteRow(calls[c].id, calls[c].vote)) :
                             fkOn \in ServingPragmas} :
          /\ votepackages' = res.rows
          /\ calls' = [calls EXCEPT
                          ![c].pc = "returned",
                          ![c].err = TranslateVoteError(res.err, calls[c].id)]
          /\ history' =
                IF res.err = NoErr
                THEN [history EXCEPT !.appended =
                         @ \cup {[processID |-> calls[c].id,
                                  vote |-> calls[c].vote]}]
                ELSE history
    /\ UNCHANGED <<migrated, foreignKeys, processes, meta, lastOp>>

NextRace ==
    \/ \E pragmaWasOn \in ServingPragmas : Migrate(pragmaWasOn)
    \/ \E id \in ProcIDs : StoreProcessCall(DefaultProcess(id))
    \/ \E c \in Callers : PrepareStoreProcess(c)
    \/ \E c \in Callers : ExecStoreProcess(c)
    \/ \E c \in Callers : PrepareStoreVotePackage(c)
    \/ \E c \in Callers : ExecStoreVotePackage(c)

SpecRace == Init /\ [][NextRace]_vars

(* ------------------------------ properties ----------------------------- *)
\* the process with the given id actually stored in a table
StoredWithID(procs, id) == {r \in Range(procs) : r.id = id}

\* C1: once migrated, every stored vote package has a processID that is the
\* id of a stored process, whatever connections served the calls.
C1_VotesReferenceProcesses ==
    migrated =>
        \A v \in Range(votepackages) :
            \E p \in Range(processes) : p.id = v.processID

\* C2: StoreVotePackage with a processID that is not the id of a stored
\* process fails with "Can not store VotePackage, ProcessID=<id> does not
\* exist" and leaves the stored vote packages and processes unchanged.
C2_MissingProcessRejected ==
    [][(/\ migrated
        /\ lastOp'.op = "StoreVotePackage"
        /\ StoredWithID(processes, lastOp'.id) = {})
       => (/\ lastOp'.err = ErrVoteProcessNotFound(lastOp'.id)
           /\ votepackages' = votepackages
           /\ processes' = processes)]_vars

\* C3: StoreProcess with an id that is already stored fails with DuplicateID
\* and changes nothing: the stored process keeps every field, its status
\* included, and no table changes.
C3_DuplicateIDChangesNothing ==
    [][(/\ lastOp'.op = "StoreProcess"
        /\ StoredWithID(processes, lastOp'.id) # {})
       => (/\ lastOp'.err = DuplicateID
           /\ processes' = processes
           /\ votepackages' = votepackages
           /\ meta' = meta)]_vars

\* C3 witness: a duplicate StoreProcess was refused while the stored process
\* had left status On and differs from the new arguments.
C3_Witness ==
    /\ lastOp.op = "StoreProcess"
    /\ lastOp.err = DuplicateID
    /\ \E p \in StoredWithID(processes, lastOp.id) :
          /\ p.status # ProcessStatusOn
          /\ p.resPubStartBlock # lastOp.proc.resPubStartBlock

\* the fields of a vote package row that must be unique in the whole table
SharesIdentity(v, w) ==
    \/ v.indx = w.indx
    \/ v.publicKey = w.publicKey
    \/ v.merkleproof = w.merkleproof

\* the row a StoreVotePackage call recorded in lastOp' asked to insert
C4_Duplicated(rows, vote) ==
    {e \in {DuplicateIndex, DuplicatePublicKey, DuplicateProof} :
        \E r \in Range(rows) :
            \/ e = DuplicateIndex /\ r.indx = vote.index
            \/ e = DuplicatePublicKey /\ r.publicKey = vote.publicKey
            \/ e = DuplicateProof /\ r.merkleproof = vote.merkleProof}

\* C4 (state part): no two stored vote packages share an index, a publicKey
\* or a merkleProof, whatever processes they belong to.
C4_GloballyUnique ==
    \A i, j \in DOMAIN votepackages :
        i # j => ~SharesIdentity(votepackages[i], votepackages[j])

\* C4: no two stored vote packages share an index, a publicKey or a
\* merkleProof across all processes, and a StoreVotePackage to an existing
\* process that repeats one of them fails with the error of a repeated
\* field (DuplicateIndex, DuplicatePublicKey, DuplicateProof) and leaves the
\* stored vote packages unchanged.
C4_DuplicatesRejected ==
    [][/\ C4_GloballyUnique'
       /\ (/\ lastOp'.op = "StoreVotePackage"
           /\ StoredWithID(processes, lastOp'.id) # {}
           /\ C4_Duplicated(votepackages, lastOp'.vote) # {})
          => (/\ lastOp'.err \in C4_Duplicated(votepackages, lastOp'.vote)
              /\ votepackages' = votepackages)]_vars

\* C4 witness: a package for one process was refused because its publicKey
\* is stored with a package of another process.
C4_Witness ==
    /\ lastOp.op = "StoreVotePackage"
    /\ lastOp.err = DuplicatePublicKey
    /\ StoredWithID(processes, lastOp.id) # {}
    /\ \E r \in Range(votepackages) :
          /\ r.publicKey = lastOp.vote.publicKey
          /\ r.processID # lastOp.id
          /\ r.indx # lastOp.vote.index
          /\ r.merkleproof # lastOp.vote.merkleProof

\* the table FrozeProcessesByCurrentBlockNum(b) is documented to leave
FrozenUpTo(procs, b) ==
    [i \in DOMAIN procs |->
        IF procs[i].status = ProcessStatusOn /\ procs[i].resPubStartBlock <= b
        THEN [procs[i] EXCEPT !.status = ProcessStatusFrozen]
        ELSE procs[i]]

\* C5: FrozeProcessesByCurrentBlockNum(b) sets to Frozen exactly the
\* processes with status On and resPubStartBlock <= b; every other process
\* keeps its status and no other field changes.
C5_FrozeExactlyDue ==
    [][(migrated /\ lastOp'.op = "FrozeProcessesByCurrentBlockNum")
       => processes' = FrozenUpTo(processes, lastOp'.block)]_vars

\* C6: a FrozeProcessesByCurrentBlockNum(b') that directly follows a
\* FrozeProcessesByCurrentBlockNum(b) with b' <= b changes no process.
C6_FrozeIdempotent ==
    [][(/\ migrated
        /\ lastOp.op = "FrozeProcessesByCurrentBlockNum"
        /\ lastOp.err = NoErr
        /\ lastOp'.op = "FrozeProcessesByCurrentBlockNum"
        /\ lastOp'.block <= lastOp.block)
       => processes' = processes]_vars

\* C7: after every successful StoreProcess, GetProcessStatus of that id
\* returns On.
C7_StoredProcessIsOn ==
    (lastOp.op = "StoreProcess" /\ lastOp.err = NoErr)
    => LET got == QueryProcessRow(processes, lastOp.id)
       IN  got.err = NoErr /\ got.row.status = ProcessStatusOn

\* C7 witness: a StoreProcess succeeded while another process is not On.
C7_Witness ==
    /\ lastOp.op = "StoreProcess"
    /\ lastOp.err = NoErr
    /\ StoredWithID(processes, lastOp.id) # {}
    /\ \E p \in Range(processes) : p.status = ProcessStatusProofGenerated

\* C8: UpdateProcessStatus(id, s) of a stored id succeeds from every current
\* status, GetProcessStatus(id) then returns s, and every other process and
\* every other field is unchanged.
C8_UpdateSetsStatus ==
    [][(/\ lastOp'.op = "UpdateProcessStatus"
        /\ StoredWithID(processes, lastOp'.id) # {})
       => (/\ lastOp'.err = NoErr
           /\ QueryProcessRow(processes', lastOp'.id).err = NoErr
           /\ QueryProcessRow(processes', lastOp'.id).row.status = lastOp'.status
           /\ Len(processes') = Len(processes)
           /\ \A i \in DOMAIN processes :
                 processes'[i] =
                    IF processes[i].id = lastOp'.id
                    THEN [processes[i] EXCEPT !.status = lastOp'.status]
                    ELSE processes[i])]_vars

\* C8 witness: an update moved a process back to On while another process
\* holds a different status.
C8_Witness ==
    /\ lastOp.op = "UpdateProcessStatus"
    /\ lastOp.err = NoErr
    /\ lastOp.status = ProcessStatusOn
    /\ \E p \in StoredWithID(processes, lastOp.id) : p.status = lastOp.status
    /\ \E p \in Range(processes) :
          p.id # lastOp.id /\ p.status = ProcessStatusProofGenerating

\* C9: UpdateProcessStatus with an id that is not stored returns no error
\* and changes nothing: no process is created, no status changes.
C9_UpdateAbsentIsNoOp ==
    [][(/\ migrated
        /\ lastOp'.op = "UpdateProcessStatus"
        /\ StoredWithID(processes, lastOp'.id) = {})
       => (/\ lastOp'.err = NoErr
           /\ processes' = processes
           /\ votepackages' = votepackages
           /\ meta' = meta)]_vars

\* C9 witness: an update of an absent id returned no error while another
\* process is stored.
C9_Witness ==
    /\ migrated
    /\ lastOp.op = "UpdateProcessStatus"
    /\ lastOp.err = NoErr
    /\ StoredWithID(processes, lastOp.id) = {}
    /\ processes # <<>>

\* C10: GetProcessStatus and ReadProcessByID fail with "Process ID:<id>,
\* does not exist in the db" exactly when the id is not stored; for a stored
\* id they succeed and return the stored status / process.
C10_NotFoundIffAbsent ==
    (migrated /\ lastOp.op \in {"GetProcessStatus", "ReadProcessByID"})
    => LET stored == StoredWithID(processes, lastOp.id)
       IN  /\ (lastOp.err = ErrProcessNotFound(lastOp.id)) <=> (stored = {})
           /\ stored # {} =>
                 /\ lastOp.err = NoErr
                 /\ lastOp.op = "GetProcessStatus" =>
                       \E p \in stored : lastOp.retStatus = p.status
                 /\ lastOp.op = "ReadProcessByID" => lastOp.retProc \in stored

\* C10 witness: a lookup of an absent id failed while another process is
\* stored.
C10_Witness ==
    /\ migrated
    /\ lastOp.op \in {"GetProcessStatus", "ReadProcessByID"}
    /\ lastOp.err = ErrProcessNotFound(lastOp.id)
    /\ StoredWithID(processes, lastOp.id) = {}
    /\ processes # <<>>

\* a lookup of a stored process that has left status On returned it
C10_StoredLookupReached ==
    /\ lastOp.op = "ReadProcessByID"
    /\ lastOp.err = NoErr
    /\ lastOp.retProc.id = lastOp.id
    /\ lastOp.retProc.status = ProcessStatusProofGenerating
\* the positions of the list at which the process with this id stands
PositionsOf(list, id) == {i \in DOMAIN list : list[i].id = id}

\* C11: ReadProcesses returns exactly the processes whose StoreProcess
\* returned nil, each of them once (a StoreProcess that failed on a taken id
\* adds no entry), and each of them is returned by ReadProcessByID with
\* the id, the censusRoot and the ethBlockNum it was created with.
C11_ReadProcessesListsCreated ==
    (lastOp.op = "ReadProcesses" /\ lastOp.err = NoErr) =>
        /\ Len(lastOp.retProcs) = Cardinality(history.created)
        /\ \A i \in DOMAIN lastOp.retProcs :
               \E a \in history.created : a.id = lastOp.retProcs[i].id
        /\ \A a \in history.created :
               /\ Cardinality(PositionsOf(lastOp.retProcs, a.id)) = 1
               /\ LET got == QueryProcessRow(processes, a.id)
                  IN  /\ got.err = NoErr
                      /\ got.row.id = a.id
                      /\ got.row.censusRoot = a.censusRoot
                      /\ got.row.ethBlockNum = a.ethBlockNum

\* two processes were created and ReadProcesses listed them
C11_Witness ==
    /\ lastOp.op = "ReadProcesses"
    /\ lastOp.err = NoErr
    /\ Cardinality(history.created) = 2
    /\ Len(lastOp.retProcs) = 2

\* the packages whose StoreVotePackage to this process returned nil
AppendedTo(processID) ==
    {a.vote : a \in {b \in history.appended : b.processID = processID}}

\* C12: ReadVotePackagesByProcessID(p) returns exactly the packages whose
\* StoreVotePackage to p returned nil (no package of another process, none
\* of a failed append), in strictly ascending order of index.
C12_ReadVotesListsAppended ==
    (lastOp.op = "ReadVotePackagesByProcessID" /\ lastOp.err = NoErr) =>
        /\ Len(lastOp.retVotes) = Cardinality(AppendedTo(lastOp.id))
        /\ {lastOp.retVotes[i] : i \in DOMAIN lastOp.retVotes}
               = {[v EXCEPT !.weight = WeightOrZero(@)] :
                      v \in AppendedTo(lastOp.id)}
        /\ \A i, j \in DOMAIN lastOp.retVotes :
               i < j => lastOp.retVotes[i].index < lastOp.retVotes[j].index

\* a process with two packages was read
C12_Witness ==
    /\ lastOp.op = "ReadVotePackagesByProcessID"
    /\ lastOp.err = NoErr
    /\ Len(lastOp.retVotes) = 2

\* a process was read while the only package belongs to another process
C12_OtherProcessReached ==
    /\ lastOp.op = "ReadVotePackagesByProcessID"
    /\ lastOp.err = NoErr
    /\ lastOp.retVotes = <<>>
    /\ votepackages # <<>>

\* C13: on the migrated schema, as long as no InitMeta has succeeded,
\* GetLastSyncBlockNum fails with ErrMetaNotInDB, also after any number of
\* UpdateLastSyncBlockNum calls; those calls return no error and create no
\* checkpoint.
C13_NoCheckpointBeforeInit ==
    (migrated /\ ~history.metaInit) =>
        /\ meta = <<>>
        /\ QueryLastSyncBlockNum(meta).err = ErrMetaNotInDB
        /\ lastOp.op = "GetLastSyncBlockNum" => lastOp.err = ErrMetaNotInDB
        /\ lastOp.op = "UpdateLastSyncBlockNum" => lastOp.err = NoErr

\* GetLastSyncBlockNum failed after an UpdateLastSyncBlockNum that was
\* made before any InitMeta
C13_Witness ==
    /\ migrated
    /\ ~history.metaInit
    /\ history.updated
    /\ lastOp.op = "GetLastSyncBlockNum"
    /\ lastOp.err = ErrMetaNotInDB

\* C14: once an InitMeta(c, n) has succeeded, GetLastSyncBlockNum returns n
\* until the first UpdateLastSyncBlockNum and after that the argument of
\* the most recent UpdateLastSyncBlockNum, for every 64-bit value (also
\* one with the sign bit set) and also when it is smaller than the one
\* before.
C14_GetReturnsLatest ==
    (migrated /\ history.metaInit /\ lastOp.op = "GetLastSyncBlockNum") =>
        /\ lastOp.err = NoErr
        /\ lastOp.retBlock = history.checkpoint

\* GetLastSyncBlockNum returned a value with the sign bit set
C14_Witness ==
    /\ history.metaInit
    /\ history.updated
    /\ lastOp.op = "GetLastSyncBlockNum"
    /\ lastOp.err = NoErr
    /\ lastOp.retBlock > MaxInt

\* the rows GetLastSyncBlockNum never reads
Unread(rows) == SelectSeq(rows, LAMBDA r : r.id # 1)

\* C15: after the first successful InitMeta every further InitMeta
\* succeeds, adds a row that is never read and leaves the value
\* GetLastSyncBlockNum returns as it was; an UpdateLastSyncBlockNum
\* changes only the row GetLastSyncBlockNum reads.
C15_FurtherInitMetaIsUnread ==
    [][(migrated /\ history.metaInit) =>
          /\ lastOp'.op = "InitMeta" =>
                /\ lastOp'.err = NoErr
                /\ Len(meta') = Len(meta) + 1
                /\ SubSeq(meta', 1, Len(meta)) = meta
                /\ meta'[Len(meta')].id # 1
                /\ QueryLastSyncBlockNum(meta') = QueryLastSyncBlockNum(meta)
          /\ lastOp'.op = "UpdateLastSyncBlockNum" =>
                /\ lastOp'.err = NoErr
                /\ Len(meta') = Len(meta)
                /\ Unread(meta') = Unread(meta)
                /\ QueryLastSyncBlockNum(meta').block = lastOp'.block]_vars

\* a second InitMeta has succeeded and an UpdateLastSyncBlockNum after it
\* left its row alone
C15_Witness ==
    /\ Len(meta) = 2
    /\ lastOp.op = "UpdateLastSyncBlockNum"
    /\ lastOp.err = NoErr
    /\ meta[2].lastSyncBlockNum # meta[1].lastSyncBlockNum

\* the weight with which the package of this index came back
ReadBackWeights(index) ==
    {lastOp.retVotes[i].weight :
        i \in {j \in DOMAIN lastOp.retVotes : lastOp.retVotes[j].index = index}}

\* C16: a vote package stored with no weight (nil) is read back by
\* ReadVotePackagesByProcessID with weight zero, and a package stored with
\* a weight w >= 0 (zero included) is read back with weight exactly w.
C16_WeightRoundTrip ==
    (lastOp.op = "ReadVotePackagesByProcessID" /\ lastOp.err = NoErr) =>
        \A v \in AppendedTo(lastOp.id) :
            /\ v.weight.isNil => ReadBackWeights(v.index) = {BigInt(0)}
            /\ (~v.weight.isNil /\ v.weight.v >= 0) =>
                   ReadBackWeights(v.index) = {v.weight}

\* a package stored without weight and one stored with a two-byte weight
\* were read back
C16_Witness ==
    /\ lastOp.op = "ReadVotePackagesByProcessID"
    /\ lastOp.err = NoErr
    /\ \E v, w \in AppendedTo(lastOp.id) :
          /\ v.weight.isNil
          /\ w.weight = BigInt(258)
          /\ ReadBackWeights(v.index) = {BigInt(0)}
          /\ ReadBackWeights(w.index) = {BigInt(258)}

\* a package stored with a negative weight came back with another weight
C16_NegativeWeightReached ==
    /\ lastOp.op = "ReadVotePackagesByProcessID"
    /\ lastOp.err = NoErr
    /\ \E v \in AppendedTo(lastOp.id) :
          v.weight.v < 0 /\ ReadBackWeights(v.index) # {v.weight}

\* C17: across the store operations a stored process is never removed and
\* none of its fields other than status changes; a stored vote package is
\* never removed and none of its fields changes.
C17_StoredRowsPersist ==
    [][/\ \A i \in DOMAIN processes :
              Cardinality({j \in DOMAIN processes' :
                              processes'[j] =
                                  [processes[i] EXCEPT
                                      !.status = processes'[j].status]}) = 1
       /\ \A i \in DOMAIN votepackages :
              Cardinality({j \in DOMAIN votepackages' :
                              votepackages'[j] = votepackages[i]}) = 1]_vars

\* two processes and two packages are stored, the processes have left
\* status On, and the last call was a StoreProcess refused for its id
C17_Witness ==
    /\ Len(processes) = 2
    /\ Len(votepackages) = 2
    /\ \A i \in DOMAIN processes : processes[i].status # ProcessStatusOn
    /\ lastOp.op = "StoreProcess"
    /\ lastOp.err = DuplicateID

\* the list holds stored rows only, and a stored row once if it is wanted
\* and not at all if it is not
ListsExactly(list, Wanted(_)) ==
    /\ \A i \in DOMAIN list : list[i] \in Range(processes)
    /\ \A row \in Range(processes) :
           Cardinality(PositionsOf(list, row.id)) = IF Wanted(row) THEN 1 ELSE 0

\* C18: after any StoreProcess, UpdateProcessStatus and
\* FrozeProcessesByCurrentBlockNum calls ReadProcessesByStatus(s) returns
\* exactly the stored processes whose status is s; so every stored process
\* is in the list of exactly one status, and the lists together have as
\* many entries as ReadProcesses returns.
C18_StatusListsPartition ==
    /\ (lastOp.op = "ReadProcessesByStatus" /\ lastOp.err = NoErr) =>
           ListsExactly(lastOp.retProcs, LAMBDA row : row.status = lastOp.status)
    /\ \A row \in Range(processes) :
           Cardinality({s \in Statuses :
                           row \in Range(SelectByStatus(processes, s))}) = 1
    /\ Len(SelectByStatus(processes, ProcessStatusOn))
         + Len(SelectByStatus(processes, ProcessStatusFrozen))
         + Len(SelectByStatus(processes, ProcessStatusProofGenerating))
         + Len(SelectByStatus(processes, ProcessStatusProofGenerated))
       = Len(processes)

\* of two stored processes the list of Frozen ones holds the one that
\* FrozeProcessesByCurrentBlockNum or UpdateProcessStatus made Frozen
C18_Witness ==
    /\ lastOp.op = "ReadProcessesByStatus"
    /\ lastOp.err = NoErr
    /\ lastOp.status = ProcessStatusFrozen
    /\ Len(processes) = 2
    /\ Len(lastOp.retProcs) = 1

\* C19: ReadProcessesByResPubStartBlock(b) returns exactly the stored
\* processes whose resPubStartBlock is b, none with a smaller or a larger
\* one, whatever their status.
C19_ListByStartBlockIsExact ==
    (lastOp.op = "ReadProcessesByResPubStartBlock" /\ lastOp.err = NoErr) =>
        ListsExactly(lastOp.retProcs,
                     LAMBDA row : row.resPubStartBlock = lastOp.block)

\* the process that starts at the later block was listed, in a status
\* other than On, and the one that starts earlier was not
C19_Witness ==
    /\ lastOp.op = "ReadProcessesByResPubStartBlock"
    /\ lastOp.err = NoErr
    /\ lastOp.block = MaxInt
    /\ Len(lastOp.retProcs) = 1
    /\ lastOp.retProcs[1].status # ProcessStatusOn
    /\ \E row \in Range(processes) : row.resPubStartBlock < MaxInt

\* C20 as it is stated: the status of a process never moves to an earlier
\* state of On -> Frozen -> ProofGenerating -> ProofGenerated, so that a
\* ProofGenerated process stays ProofGenerated.
C20_StatusNeverMovesBack ==
    [][\A p \in Range(processes), q \in Range(processes') :
          p.id = q.id => q.status >= p.status]_vars

\* C20: the status of a process moves to an earlier state only in an
\* UpdateProcessStatus call that names the process and that status;
\* StoreProcess changes the status of no stored process, and
\* FrozeProcessesByCurrentBlockNum only moves processes from On to Frozen,
\* so that neither takes a process out of ProofGenerated.
C20_OnlyUpdateMovesStatusBack ==
    [][\A p \in Range(processes), q \in Range(processes') :
          p.id = q.id =>
              /\ q.status < p.status =>
                     /\ lastOp'.op = "UpdateProcessStatus"
                     /\ lastOp'.id = p.id
                     /\ lastOp'.status = q.status
              /\ lastOp'.op = "StoreProcess" => q.status = p.status
              /\ (lastOp'.op = "FrozeProcessesByCurrentBlockNum"
                    /\ q.status # p.status) =>
                     /\ p.status = ProcessStatusOn
                     /\ q.status = ProcessStatusFrozen]_vars

\* FrozeProcessesByCurrentBlockNum ran at a block at which a ProofGenerated
\* process was due, and the process is still ProofGenerated
C20_Witness ==
    /\ lastOp.op = "FrozeProcessesByCurrentBlockNum"
    /\ lastOp.err = NoErr
    /\ \E row \in Range(processes) :
          /\ row.status = ProcessStatusProofGenerated
          /\ lastOp.block <= MaxInt
          /\ row.resPubStartBlock <= lastOp.block

\* C22: for every currentBlockNum of the unsigned 64-bit range, also one
\* with the sign bit set, FrozeProcessesByCurrentBlockNum(currentBlockNum)
\* moves every process with status On and resPubStartBlock <=
\* currentBlockNum to Frozen.
C22_FrozeAllDueAtAnyBlock ==
    [][(migrated /\ lastOp'.op = "FrozeProcessesByCurrentBlockNum") =>
          \A p \in Range(processes) :
              (p.status = ProcessStatusOn
                 /\ p.resPubStartBlock <= lastOp'.block) =>
                  \E q \in Range(processes') :
                      q.id = p.id /\ q.status = ProcessStatusFrozen]_vars

\* a block number with the sign bit set was given while a process was On,
\* and the process is still On
C22_StillOnReached ==
    /\ lastOp.op = "FrozeProcessesByCurrentBlockNum"
    /\ lastOp.err = NoErr
    /\ lastOp.block > MaxInt
    /\ \E row \in Range(processes) : row.status = ProcessStatusOn

\* no stored package has the index, the publicKey or the merkleProof
Unused(rows, vote) ==
    \A r \in Range(rows) : /\ r.indx # vote.index
                           /\ r.publicKey # vote.publicKey
                           /\ r.merkleproof # vote.merkleProof

\* C23: StoreVotePackage does not depend on the status of the process: for
\* a stored process in any status, appending a package whose index,
\* publicKey and merkleProof are all unused succeeds, adds exactly that
\* package and changes no process and no other vote package.
C23_AppendInAnyStatus ==
    [][(/\ migrated
        /\ lastOp'.op = "StoreVotePackage"
        /\ StoredWithID(processes, lastOp'.id) # {}
        /\ Unused(votepackages, lastOp'.vote))
       => (/\ lastOp'.err = NoErr
           /\ processes' = processes
           /\ Len(votepackages') = Len(votepackages) + 1
           /\ \A r \in Range(votepackages) : r \in Range(votepackages')
           /\ \E r \in Range(votepackages') :
                 /\ r \notin Range(votepackages)
                 /\ r.processID = lastOp'.id
                 /\ ScanVote(r) = lastOp'.vote)]_vars

\* with the foreign keys enforced on every connection, a second package
\* was appended to a process that is ProofGenerated
C23_Witness ==
    /\ foreignKeys = NumConns
    /\ lastOp.op = "StoreVotePackage"
    /\ lastOp.err = NoErr
    /\ Len(votepackages) = 2
    /\ \E p \in Range(processes) :
          p.id = lastOp.id /\ p.status = ProcessStatusProofGenerated

\* both callers made this method's call and both INSERTs have run
BothRan(c, d, op) ==
    /\ c # d
    /\ calls[c].pc = "returned" /\ calls[d].pc = "returned"
    /\ calls[c].op = op /\ calls[d].op = op
    /\ calls[c].err # ErrNoSuchTable /\ calls[d].err # ErrNoSuchTable

\* at most one of the two calls succeeded and the others got one of these
\* constraint errors
AtMostOneWon(c, d, errors) ==
    /\ ~(calls[c].err = NoErr /\ calls[d].err = NoErr)
    /\ calls[c].err \in {NoErr} \cup errors
    /\ calls[d].err \in {NoErr} \cup errors

UniqueErrors == {DuplicateIndex, DuplicatePublicKey, DuplicateProof}

\* C21: when two callers at the same time call StoreProcess with the same
\* id, or StoreVotePackage with packages that share an index, a publicKey
\* or a merkleProof, at most one of the two calls succeeds, the other
\* returns a constraint error, and the store holds exactly one record of
\* that identity, in every interleaving of the calls' steps.
C21_ConcurrentDuplicatesExcluded ==
    \A c, d \in Callers :
        /\ (BothRan(c, d, "StoreProcess") /\ calls[c].id = calls[d].id) =>
               /\ AtMostOneWon(c, d, {DuplicateID})
               /\ Len(SelectByID(processes, calls[c].id)) = 1
        /\ BothRan(c, d, "StoreVotePackage") =>
               /\ calls[c].vote.index = calls[d].vote.index =>
                      /\ AtMostOneWon(c, d, UniqueErrors)
                      /\ Len(SelectSeq(votepackages, LAMBDA r :
                                 r.indx = calls[c].vote.index)) = 1
               /\ calls[c].vote.publicKey = calls[d].vote.publicKey =>
                      /\ AtMostOneWon(c, d, UniqueErrors)
                      /\ Len(SelectSeq(votepackages, LAMBDA r :
                                 r.publicKey = calls[c].vote.publicKey)) = 1
               /\ calls[c].vote.merkleProof = calls[d].vote.merkleProof =>
                      /\ AtMostOneWon(c, d, UniqueErrors)
                      /\ Len(SelectSeq(votepackages, LAMBDA r :
                                 r.merkleproof = calls[c].vote.merkleProof)) = 1

\* two StoreProcess calls with one id were under way together and have
\* returned, one with nil and one with the constraint error
C21_Witness ==
    \E c, d \in Callers :
        /\ BothRan(c, d, "StoreProcess")
        /\ calls[c].id = calls[d].id
        /\ calls[c].err = NoErr
        /\ calls[d].err = DuplicateID

\* two StoreVotePackage calls whose packages share the publicKey only have
\* returned, to different processes, one with nil and one with the error
C21_VoteRaceReached ==
    \E c, d \in Callers :
        /\ BothRan(c, d, "StoreVotePackage")
        /\ calls[c].id # calls[d].id
        /\ calls[c].vote.publicKey = calls[d].vote.publicKey
        /\ calls[c].vote.index # calls[d].vote.index
        /\ calls[c].vote.merkleProof # calls[d].vote.merkleProof
        /\ calls[c].err = NoErr
        /\ calls[d].err = DuplicatePublicKey

\* both calls are prepared and neither INSERT has run
C21_BothPreparedReached ==
    \E c, d \in Callers :
        /\ c # d
        /\ calls[c].pc = "prepared" /\ calls[d].pc = "prepared"
        /\ calls[c].op = "StoreProcess" /\ calls[d].op = "StoreProcess"
        /\ calls[c].id = calls[d].id
        /\ ~ProcessIDTaken(processes, calls[c].id)

====
